---- MODULE Spec2Model ----
(***************************************************************************)
(* g-SDDMM CUDA kernels of array/cuda/sddmm.cuh: the coordinate kernel     *)
(* SDDMMCooKernel, the compressed-row kernel SDDMMCsrKernel with its       *)
(* device-side BinarySearchSrc, and the launches issued by SDDMMCoo and    *)
(* SDDMMCsr onto one stream.  Buffers are 0-based functions, a pointer is  *)
(* an offset into its buffer or Null, and the threads of a launch          *)
(* interleave step by step.                                                *)
(***************************************************************************)
EXTENDS Integers, Sequences, FiniteSets, TLC

VARIABLES
  coo,      \* COOMatrix: [num_rows, num_cols, row, col, data]; data is the edge map
  csr,      \* CSRMatrix: [num_rows, num_cols, indptr, indices, data]
  ufeat,    \* source-feature buffer (no cell when it is unreadable)
  vfeat,    \* destination-feature buffer (no cell when it is unreadable)
  bcast,    \* BcastOff: [out_len, lhs_len, rhs_len, reduce_size, lhs_offset, rhs_offset]
  op,       \* the BinaryOp template argument
  grid,     \* launch geometry: [bdx, bdy, gdx, gdy] = blockDim.x/y, gridDim.x/y
  calls,    \* how many dispatches the caller issues onto the stream
  out,      \* output buffer, E * out_len cells
  kern,     \* the kernel running on the stream: [fmt, UseBcast, UseIdx], or NoKernel
  thr,      \* thread id -> the thread's local variables and position
  hist,     \* the launches that completed on the stream, in queue order
  visits,   \* <<e, p>> -> number of executions of the loop body (this launch)
  writers,  \* output cell -> threads that stored to it (this launch)
  reads,    \* <<buffer, index>> loaded by some thread (this launch)
  srch,     \* a stand-alone call of BinarySearchSrc: [array, length, eid, lo, hi, pc, ret]
  host      \* a call of SDDMMCoo / SDDMMCsr on the host, with the streams it feeds

vars == <<coo, csr, ufeat, vfeat, bcast, op, grid, calls, out, kern, thr, hist,
          visits, writers, reads, srch, host>>

inputs == <<coo, csr, ufeat, vfeat, bcast, op, grid, calls>>

----------------------------------------------------------------------------
(* Bounds of the model. *)

MaxE == 2          \* edges of the enumerated sparse structures
MaxLen == 2        \* out_len of the enumerated broadcast descriptors
MaxDim == 2        \* each of blockDim.x, blockDim.y, gridDim.x, gridDim.y
MaxThreads == 4    \* threads of one launch
MaxReduce == 2     \* reduce_size of the enumerated broadcast descriptors
MaxSearchN == 3    \* rows of the row-pointer arrays given to BinarySearchSrc alone
MaxSearchE == 5    \* edges of those arrays
IdxBits == 5       \* width of the signed index type Idx in the model

NumSrc == 2        \* N of the enumerated structures
NumDst == 2        \* M of the enumerated structures

\* IsNullArray(a): the null array is the array of length 0
NullArray == <<>>
IsNullArray(a) == DOMAIN a = {}

\* nullptr, and a pointer off cells into the buffer named base
NullPtr == [base |-> "null", off |-> 0]
Ptr(b, o) == [base |-> b, off |-> o]
PtrAdd(p, k) == [p EXCEPT !.off = @ + k]

NoKernel == [fmt |-> "none", UseBcast |-> FALSE, UseIdx |-> FALSE]

----------------------------------------------------------------------------
(* Helpers. *)

Min2(a, b) == IF a < b THEN a ELSE b

\* a value converted to the signed IdxBits-bit type Idx
ToIdx(x) ==
  LET m == 2 ^ IdxBits
      r == x % m
  IN IF r >= m \div 2 THEN r - m ELSE r

\* the largest value of Idx
MaxIdx == 2 ^ (IdxBits - 1) - 1

IdxFits(x) == x \in (-MaxIdx - 1)..MaxIdx

\* what a + b on two Idx values can leave: the sum when it fits; when it
\* overflows, the wrapped value, or the sum itself kept in a wider register
IdxSum(a, b) == IF IdxFits(a + b) THEN {a + b} ELSE {ToIdx(a + b), a + b}

\* shape[0] of a 0-based array
Size(a) == Cardinality(DOMAIN a)

\* _ldg(array + i)
Ldg(array, i) == array[i]

\* *(p + i) for a pointer into one of the two feature buffers
Deref(p, i) == IF p.base = "ufeat" THEN ufeat[p.off + i] ELSE vfeat[p.off + i]

----------------------------------------------------------------------------
(* The operator functors consumed by the kernels (functor.cuh). *)

Ops == {"add", "mul", "dot", "copy_lhs", "copy_rhs"}

use_lhs(o) == o # "copy_rhs"
use_rhs(o) == o # "copy_lhs"

RECURSIVE DotSum(_, _, _)
DotSum(lhs, rhs, len) ==
  IF len = 0 THEN 0
  ELSE DotSum(lhs, rhs, len - 1) + Deref(lhs, len - 1) * Deref(rhs, len - 1)

\* BinaryOp::Call(lhs, rhs, len)
Call(o, lhs, rhs, len) ==
  CASE o = "add" -> Deref(lhs, 0) + Deref(rhs, 0)
    [] o = "mul" -> Deref(lhs, 0) * Deref(rhs, 0)
    [] o = "dot" -> DotSum(lhs, rhs, len)
    [] o = "copy_lhs" -> Deref(lhs, 0)
    [] o = "copy_rhs" -> Deref(rhs, 0)

\* the cells BinaryOp::Call(lhs, rhs, len) loads
CallReads(o, lhs, rhs, len) ==
  LET w == IF o = "dot" THEN len ELSE 1
  IN (IF use_lhs(o) THEN {<<lhs.base, lhs.off + i>> : i \in 0..(w - 1)} ELSE {})
     \cup (IF use_rhs(o) THEN {<<rhs.base, rhs.off + i>> : i \in 0..(w - 1)} ELSE {})

----------------------------------------------------------------------------
(* BinarySearchSrc: the source row of an edge id in a row-pointer array. *)

\* Idx lo = 0, hi = length - 1
SearchEntry(length) == [lo |-> 0, hi |-> ToIdx(length - 1)]

\* one iteration of while (lo < hi)
\* Idx mid = (lo + hi) >> 1: the shift of each value the sum can leave
Midpoints(lo, hi) == {x \div 2 : x \in IdxSum(lo, hi)}

\* (a bug: a lower-bound search, the test strict)
SearchIterMid_Strict(array, lo, hi, eid, mid) ==
  IF Ldg(array, mid) < eid
  THEN [lo |-> ToIdx(mid + 1), hi |-> hi, mid |-> mid]
  ELSE [lo |-> lo, hi |-> mid, mid |-> mid]

\* the test and the assignment of one iteration, for the midpoint mid
SearchIterMid(array, lo, hi, eid, mid) ==
  IF Ldg(array, mid) <= eid
  THEN [lo |-> ToIdx(mid + 1), hi |-> hi, mid |-> mid]
  ELSE [lo |-> lo, hi |-> mid, mid |-> mid]

SearchIter(array, lo, hi, eid) ==
  SearchIterMid(array, lo, hi, eid, ToIdx(lo + hi) \div 2)

RECURSIVE SearchLoop(_, _, _, _)
SearchLoop(array, lo, hi, eid) ==
  IF lo < hi
  THEN LET n == SearchIter(array, lo, hi, eid)
       IN SearchLoop(array, n.lo, n.hi, eid)
  ELSE [lo |-> lo, hi |-> hi]

\* (a bug: the step back to the row start forgotten)
SearchReturn_NoStepBack(array, hi, eid) == hi
\* the test after the loop
SearchReturn(array, hi, eid) ==
  IF Ldg(array, hi) = eid THEN hi ELSE ToIdx(hi - 1)

BinarySearchSrc(array, length, eid) ==
  LET s == SearchEntry(length)
      r == SearchLoop(array, s.lo, s.hi, eid)
  IN SearchReturn(array, r.hi, eid)

\* the indices of array that BinarySearchSrc loads
RECURSIVE SearchLoopReads(_, _, _, _)
SearchLoopReads(array, lo, hi, eid) ==
  IF lo < hi
  THEN LET n == SearchIter(array, lo, hi, eid)
       IN {n.mid} \cup SearchLoopReads(array, n.lo, n.hi, eid)
  ELSE {hi}
BinarySearchReads(array, length, eid) ==
  LET s == SearchEntry(length)
  IN SearchLoopReads(array, s.lo, s.hi, eid)

----------------------------------------------------------------------------
(* What the two kernels share: thread indexing, operand addressing, store. *)

\* thread ids <<blockIdx.x, blockIdx.y, threadIdx.x, threadIdx.y>> of a launch
Threads(g) ==
  (0..(g.gdx - 1)) \X (0..(g.gdy - 1)) \X (0..(g.bdx - 1)) \X (0..(g.bdy - 1))

\* blockIdx.y * blockDim.y + threadIdx.y
ThreadY(g, t) == t[2] * g.bdy + t[4]
\* (a bug: the stride of one block instead of the whole grid)
StrideY_OneBlock(g) == g.bdy
\* blockDim.y * gridDim.y
StrideY(g) == g.bdy * g.gdy
\* (a bug: the block offset forgotten)
ThreadX_NoBlock(g, t) == t[3]
\* blockIdx.x * blockDim.x + threadIdx.x
ThreadX(g, t) == t[1] * g.bdx + t[3]
\* (a bug: the stride of the blocks after the first, none on a single block)
StrideX_OtherBlocks(g) == g.bdx * (g.gdx - 1)
\* blockDim.x * gridDim.x
StrideX(g) == g.bdx * g.gdx

\* (a bug: the edge map ignored)
EdgeId_NoMap(UseIdx, edge_map, ty) == ty
\* const Idx eid = UseIdx ? _ldg(edge_map + ty) : ty
EdgeId(UseIdx, edge_map, ty) == IF UseIdx THEN Ldg(edge_map, ty) ELSE ty

\* (a bug: the node id not scaled by the row width)
FeatBase_Unscaled(use, base, node, len) == IF use THEN Ptr(base, node) ELSE NullPtr
\* (a bug: the base computed also for the side the operator does not use)
FeatBase_Always(use, base, node, len) == Ptr(base, node * len)
\* BinaryOp::use_lhs ? (ufeat + src * ufeat_len) : nullptr, and the same for rhs
FeatBase(use, base, node, len) == IF use THEN Ptr(base, node * len) ELSE NullPtr

\* (a bug: the row after the edge's own)
OutOff_NextRow(eid, out_len) == (eid + 1) * out_len
\* (a bug: the output row not scaled by the row width)
OutOff_Unscaled(eid, out_len) == eid
\* DType* outoff = out + eid * out_len
OutOff(eid, out_len) == eid * out_len

\* (a bug: the fast path reads block 0 for every position)
BcastAdd_FastZero(UseBcast, off, tx) == ToIdx(IF UseBcast THEN off[tx] ELSE 0)
\* const Idx lhs_add = UseBcast ? ubcast_off[tx] : tx, and the same for rhs
BcastAdd(UseBcast, off, tx) == ToIdx(IF UseBcast THEN off[tx] ELSE tx)

\* (a bug: outoff[tx] += val)
Store_Accumulate(mem, i, val) == [mem |-> [mem EXCEPT ![i] = @ + val], loads |-> {i}]
\* outoff[tx] = val: the memory after the store and the cells it loaded
Store(mem, i, val) == [mem |-> [mem EXCEPT ![i] = val], loads |-> {}]

\* the local variables of a thread that has not entered a kernel, or has left it
IdleThread ==
  [pc |-> "idle", ty |-> 0, stride_y |-> 0, tx |-> 0, stride_x |-> 0,
   src |-> 0, dst |-> 0, eid |-> 0,
   lhsoff |-> NullPtr, rhsoff |-> NullPtr, outoff |-> 0]

\* a thread at the top of the kernel, ty and stride_y computed
EntryThread(g, t) ==
  [IdleThread EXCEPT !.pc = "edge",
                     !.ty = ToIdx(ThreadY(g, t)),
                     !.stride_y = ToIdx(StrideY(g))]

\* the locals of a thread that passed while (ty < E) with endpoints src, dst
EdgeThread(s, g, t, k, src, dst, edge_map) ==
  LET eid == EdgeId(k.UseIdx, edge_map, s.ty)
  IN [s EXCEPT !.pc = "feat",
               !.src = src, !.dst = dst, !.eid = eid,
               !.lhsoff = FeatBase(use_lhs(op), "ufeat", src, bcast.lhs_len),
               !.rhsoff = FeatBase(use_rhs(op), "vfeat", dst, bcast.rhs_len),
               !.outoff = OutOff(eid, bcast.out_len),
               !.tx = ThreadX(g, t),
               !.stride_x = StrideX(g)]

\* the locals of a thread whose feature loop ended: ty += stride_y
NextEdgeThread(s, ty) ==
  [IdleThread EXCEPT !.pc = "edge",
                     !.ty = ty,
                     !.stride_y = s.stride_y]

\* a load outside its buffer: the thread is lost to an illegal address
Fault(s) == [s EXCEPT !.pc = "fault"]

Bump(f, k) ==
  IF k \in DOMAIN f THEN [f EXCEPT ![k] = @ + 1] ELSE f @@ (k :> 1)
AddWriter(f, c, t) ==
  IF c \in DOMAIN f THEN [f EXCEPT ![c] = @ \cup {t}] ELSE f @@ (c :> {t})

\* the body of while (tx < out_len) for thread t with locals s
FeatBody(t, s) ==
  LET lhs_add == BcastAdd(kern.UseBcast, bcast.lhs_offset, s.tx)
      rhs_add == BcastAdd(kern.UseBcast, bcast.rhs_offset, s.tx)
      lhs == PtrAdd(s.lhsoff, lhs_add * bcast.reduce_size)
      rhs == PtrAdd(s.rhsoff, rhs_add * bcast.reduce_size)
      val == Call(op, lhs, rhs, bcast.reduce_size)
      st == Store(out, s.outoff + s.tx, val)
  IN /\ out' = st.mem
     /\ reads' = reads
          \cup {<<"out", c>> : c \in st.loads}
          \cup CallReads(op, lhs, rhs, bcast.reduce_size)
          \cup (IF kern.UseBcast
                THEN {<<"ubcast_off", s.tx>>, <<"vbcast_off", s.tx>>} ELSE {})
     /\ visits' = Bump(visits, <<s.ty, s.tx>>)
     /\ writers' = AddWriter(writers, s.outoff + s.tx, t)
     /\ thr' = [thr EXCEPT ![t].tx = s.tx + s.stride_x]

\* one test of while (tx < out_len), with the body or the exit and ty += stride_y
FeatStep(t) ==
  LET s == thr[t]
  IN IF s.tx < bcast.out_len
     THEN FeatBody(t, s)
     ELSE /\ \E ty \in IdxSum(s.ty, s.stride_y) :
               thr' = [thr EXCEPT ![t] = NextEdgeThread(s, ty)]
          /\ UNCHANGED <<out, reads, visits, writers>>

----------------------------------------------------------------------------
(* SDDMMCooKernel. *)

\* const int64_t nnz = coo.row->shape[0], the kernel's E
CooE == Size(coo.row)

\* one test of while (ty < E): load the endpoints and the bases, or leave
CooEdgeStep(t) ==
  /\ kern.fmt = "coo"
  /\ thr[t].pc = "edge"
  /\ LET s == thr[t]
     IN IF s.ty < CooE
        THEN /\ thr' = [thr EXCEPT ![t] =
                  IF s.ty \in DOMAIN coo.row
                  THEN EdgeThread(s, grid, t, kern,
                                  Ldg(coo.row, s.ty), Ldg(coo.col, s.ty), coo.data)
                  ELSE Fault(s)]
             /\ reads' = reads \cup {<<"row", s.ty>>, <<"col", s.ty>>}
                  \cup (IF kern.UseIdx THEN {<<"edge_map", s.ty>>} ELSE {})
        ELSE /\ thr' = [thr EXCEPT ![t] = [IdleThread EXCEPT !.pc = "done"]]
             /\ UNCHANGED reads
  /\ UNCHANGED <<inputs, out, kern, hist, visits, writers, srch, host>>

CooFeatStep(t) ==
  /\ kern.fmt = "coo"
  /\ thr[t].pc = "feat"
  /\ FeatStep(t)
  /\ UNCHANGED <<inputs, kern, hist, srch, host>>

----------------------------------------------------------------------------
(* SDDMMCsrKernel. *)

\* (a bug: the end of the row taken for the row)
CsrSrc_RowEnd(indptr, N, ty) == BinarySearchSrc(indptr, N + 1, ty) + 1
\* (a bug: the row-pointer array searched without its last entry)
CsrSrc_ShortLength(indptr, N, ty) == BinarySearchSrc(indptr, N, ty)
\* const Idx src = BinarySearchSrc<Idx>(indptr, N + 1, ty)
CsrSrc(indptr, N, ty) == BinarySearchSrc(indptr, N + 1, ty)

\* E = csr.indices->shape[0]
CsrE == Size(csr.indices)

CsrEdgeStep(t) ==
  /\ kern.fmt = "csr"
  /\ thr[t].pc = "edge"
  /\ LET s == thr[t]
     IN IF s.ty < CsrE
        THEN /\ thr' = [thr EXCEPT ![t] =
                  IF s.ty \in DOMAIN csr.indices
                  THEN EdgeThread(s, grid, t, kern,
                                  CsrSrc(csr.indptr, csr.num_rows, s.ty),
                                  Ldg(csr.indices, s.ty), csr.data)
                  ELSE Fault(s)]
             /\ reads' = reads \cup {<<"indices", s.ty>>}
                  \cup {<<"indptr", i>> :
                          i \in BinarySearchReads(csr.indptr, csr.num_rows + 1, s.ty)}
                  \cup (IF kern.UseIdx THEN {<<"edge_map", s.ty>>} ELSE {})
        ELSE /\ thr' = [thr EXCEPT ![t] = [IdleThread EXCEPT !.pc = "done"]]
             /\ UNCHANGED reads
  /\ UNCHANGED <<inputs, out, kern, hist, visits, writers, srch, host>>

CsrFeatStep(t) ==
  /\ kern.fmt = "csr"
  /\ thr[t].pc = "feat"
  /\ FeatStep(t)
  /\ UNCHANGED <<inputs, kern, hist, srch, host>>

----------------------------------------------------------------------------
(* The launches of SDDMMCoo and SDDMMCsr on the stream, and their retirement. *)

NoVisits == <<>>
NoWriters == <<>>

\* lhs_len == rhs_len == out_len (times the reduce width): no broadcasting needed
IdentityShape(b) ==
  /\ b.lhs_len = b.out_len * b.reduce_size
  /\ b.rhs_len = b.out_len * b.reduce_size

Started(k) ==
  /\ kern' = k
  /\ thr' = [t \in Threads(grid) |-> EntryThread(grid, t)]
  /\ visits' = NoVisits
  /\ writers' = NoWriters
  /\ reads' = {}
  /\ UNCHANGED <<inputs, out, hist, srch, host>>

\* SDDMMCooKernel<Idx, DType, Op, UseBcast, UseIdx><<<nblks, nthrs, 0, stream>>>(...)
LaunchCoo(use_bcast) ==
  /\ kern = NoKernel
  /\ Len(hist) < calls
  /\ use_bcast \/ IdentityShape(bcast)
  /\ Started([fmt |-> "coo", UseBcast |-> use_bcast,
              UseIdx |-> ~IsNullArray(coo.data)])

\* SDDMMCsrKernel<Idx, DType, Op, UseBcast, UseIdx><<<nblks, nthrs, 0, stream>>>(...)
LaunchCsr(use_bcast) ==
  /\ kern = NoKernel
  /\ Len(hist) < calls
  /\ use_bcast \/ IdentityShape(bcast)
  /\ Started([fmt |-> "csr", UseBcast |-> use_bcast,
              UseIdx |-> ~IsNullArray(csr.data)])

AllDone == kern # NoKernel /\ \A t \in DOMAIN thr : thr[t].pc = "done"

\* every thread has returned: the kernel leaves the stream
Retire ==
  /\ AllDone
  /\ hist' = Append(hist, [fmt |-> kern.fmt, UseBcast |-> kern.UseBcast,
                           UseIdx |-> kern.UseIdx, out |-> out])
  /\ kern' = NoKernel
  /\ thr' = [t \in DOMAIN thr |-> IdleThread]
  /\ visits' = NoVisits
  /\ writers' = NoWriters
  /\ reads' = {}
  /\ UNCHANGED <<inputs, out, srch, host>>

----------------------------------------------------------------------------
(* A stand-alone call BinarySearchSrc(array, length, eid), one step per
   loop test. *)

SearchOff == [array |-> <<>>, length |-> 0, eid |-> 0,
              lo |-> 0, hi |-> 0, mid |-> 0, pc |-> "off", ret |-> 0]

SearchCall(array, length, eid) ==
  [array |-> array, length |-> length, eid |-> eid,
   lo |-> SearchEntry(length).lo, hi |-> SearchEntry(length).hi, mid |-> 0,
   pc |-> "loop", ret |-> 0]

SearchStep ==
  /\ srch.pc = "loop"
  /\ IF srch.lo < srch.hi
     THEN \E mid \in Midpoints(srch.lo, srch.hi) :
            IF mid \in DOMAIN srch.array
            THEN LET n == SearchIterMid(srch.array, srch.lo, srch.hi, srch.eid, mid)
                 IN srch' = [srch EXCEPT !.lo = n.lo, !.hi = n.hi, !.mid = mid]
            ELSE srch' = [srch EXCEPT !.pc = "fault", !.mid = mid]
     ELSE srch' = [srch EXCEPT !.pc = "test"]
  /\ UNCHANGED <<inputs, out, kern, thr, hist, visits, writers, reads, host>>

SearchExit ==
  /\ srch.pc = "test"
  /\ srch' = [srch EXCEPT !.pc = "done",
                          !.ret = SearchReturn(srch.array, srch.hi, srch.eid)]
  /\ UNCHANGED <<inputs, out, kern, thr, hist, visits, writers, reads, host>>

----------------------------------------------------------------------------
(* The host side of one call of SDDMMCoo / SDDMMCsr: the launch geometry,
   the offset tables around the launch, and the streams of the device.  The
   two entry points differ only in where nnz comes from (coo.row->shape[0],
   csr.indices->shape[0]). *)

CUDA_MAX_NUM_THREADS == 4   \* threads per block (scaled down)
MaxBlocksY == 2             \* the cap FindNumBlocks<'y'> applies (scaled down)

\* cuda::FindNumThreads(len): some value in [1, CUDA_MAX_NUM_THREADS]
FindNumThreads(len) == 1..CUDA_MAX_NUM_THREADS

\* cuda::FindNumBlocks<'y'>(n): some value in [1, min(n, cap)]
FindNumBlocksY(n) == 1..Min2(n, MaxBlocksY)

\* (a bug: the division rounds down)
CeilDiv_Floor(a, b) == a \div b

\* (a + b - 1) / b
CeilDiv(a, b) == (a + b - 1) \div b

\* const int nty = CUDA_MAX_NUM_THREADS / ntx
Nty(ntx) == CUDA_MAX_NUM_THREADS \div ntx

\* (a bug: the launch goes to the legacy default stream)
KernelStream_Default == "default"

\* the stream argument of the launch: thr_entry->stream
KernelStream == "thr_entry"

Streams == {"thr_entry", "default"}

HostCall(fmt, len, nnz, use_bcast, queue_ok) ==
  [pc |-> "geom", fmt |-> fmt, len |-> len, nnz |-> nnz, use_bcast |-> use_bcast,
   queue_ok |-> queue_ok, ntx |-> 0, nty |-> 0, nbx |-> 0, nby |-> 0,
   ubcast_off |-> "nullptr", vbcast_off |-> "nullptr",
   kernel |-> "none", queue |-> [s \in Streams |-> <<>>],
   error |-> FALSE, result |-> "none"]

HostOff == [HostCall("none", 0, 0, FALSE, TRUE) EXCEPT !.pc = "off"]

Frozen == UNCHANGED <<inputs, out, kern, thr, hist, visits, writers, reads, srch>>

\* const int ntx .. const dim3 nthrs(ntx, nty)
Geometry ==
  /\ host.pc = "geom"
  /\ \E ntx \in FindNumThreads(host.len) :
       LET nty == Nty(ntx)
       IN \E nby \in FindNumBlocksY(CeilDiv(host.nnz, nty)) :
            host' = [host EXCEPT !.pc = "switch", !.ntx = ntx, !.nty = nty,
                                 !.nbx = CeilDiv(host.len, ntx), !.nby = nby]
  /\ Frozen

\* BCAST_IDX_CTX_SWITCH, before the launch: with broadcasting the two offset
\* tables are allocated on the device and filled from bcast.lhs_offset and
\* bcast.rhs_offset; without, the pointers stay nullptr
SwitchEnter ==
  /\ host.pc = "switch"
  /\ host' = [host EXCEPT !.pc = "launch",
                          !.ubcast_off = IF host.use_bcast THEN "filled" ELSE @,
                          !.vbcast_off = IF host.use_bcast THEN "filled" ELSE @]
  /\ Frozen

\* what the runtime accepts: every extent positive, a block within the limit
ValidGeometry(h) ==
  /\ h.ntx >= 1 /\ h.nty >= 1 /\ h.nbx >= 1 /\ h.nby >= 1
  /\ h.ntx * h.nty <= CUDA_MAX_NUM_THREADS

\* Kernel<<<nblks, nthrs, 0, thr_entry->stream>>>(...): an accepted launch is
\* queued on the stream; a rejected one leaves the runtime's error flag set,
\* and the statement itself yields nothing
LaunchKernel ==
  /\ host.pc = "launch"
  /\ IF host.queue_ok /\ ValidGeometry(host)
     THEN host' = [host EXCEPT !.pc = "leave", !.kernel = "pending",
                     !.queue[KernelStream] = Append(@, "kernel")]
     ELSE host' = [host EXCEPT !.pc = "leave", !.kernel = "rejected",
                     !.error = TRUE]
  /\ Frozen

\* BCAST_IDX_CTX_SWITCH, after the launch: the release of the two tables is
\* issued, ordered on the caller's stream behind what that stream holds
SwitchLeave ==
  /\ host.pc = "leave"
  /\ host' = [host EXCEPT !.pc = "ret",
                !.queue["thr_entry"] =
                   IF host.use_bcast THEN Append(@, "release") ELSE @]
  /\ Frozen

\* the closing brace of SDDMMCoo / SDDMMCsr: the call returns to its caller
Return ==
  /\ host.pc = "ret"
  /\ host' = [host EXCEPT !.pc = "returned", !.result = "ok"]
  /\ Frozen

\* the device takes the kernel at the head of a stream
KernelBegin ==
  /\ host.kernel = "pending"
  /\ \E s \in Streams : host.queue[s] # <<>> /\ Head(host.queue[s]) = "kernel"
  /\ host' = [host EXCEPT !.kernel = "running"]
  /\ Frozen

\* the kernel completes and leaves its stream
KernelEnd ==
  /\ host.kernel = "running"
  /\ \E s \in Streams :
       /\ host.queue[s] # <<>> /\ Head(host.queue[s]) = "kernel"
       /\ host' = [host EXCEPT !.kernel = "done", !.queue[s] = Tail(@)]
  /\ Frozen

\* the release reaches the head of the caller's stream: the tables are gone
ReleaseRun ==
  /\ host.queue["thr_entry"] # <<>> /\ Head(host.queue["thr_entry"]) = "release"
  /\ host' = [host EXCEPT !.ubcast_off = "released", !.vbcast_off = "released",
                          !.queue["thr_entry"] = Tail(@)]
  /\ Frozen

----------------------------------------------------------------------------
(* The inputs the model enumerates: every buffer well-formed. *)

Arr0(n, S) == [0..(n - 1) -> S]

Perms0(n) == {f \in Arr0(n, 0..(n - 1)) : \A i, j \in 0..(n - 1) : f[i] = f[j] => i = j}

\* the coordinate encodings with E edges: rows in any order, with or without edge
\* map, the destinations one fixed pattern
CooSet(E) ==
  {[num_rows |-> NumSrc, num_cols |-> NumDst, row |-> r,
    col |-> [e \in 0..(E - 1) |-> (e + 1) % NumDst], data |-> d] :
     r \in Arr0(E, 0..(NumSrc - 1)), d \in {NullArray} \cup Perms0(E)}

\* the compressed-row encoding of the edge set of c: edges stably sorted by row,
\* data naming the output row of each edge unless the order and the rows are kept
ToCsr(c) ==
  LET E == Size(c.row)
      es == 0..(E - 1)
      Rank(e) == Cardinality({f \in es : \/ c.row[f] < c.row[e]
                                         \/ c.row[f] = c.row[e] /\ f < e})
      order == [j \in es |-> CHOOSE e \in es : Rank(e) = j]
      sorted == \A j \in es : order[j] = j
      OutRow(e) == IF IsNullArray(c.data) THEN e ELSE c.data[e]
  IN [num_rows |-> c.num_rows, num_cols |-> c.num_cols,
      indptr |-> [i \in 0..c.num_rows |-> Cardinality({e \in es : c.row[e] < i})],
      indices |-> [j \in es |-> c.col[order[j]]],
      data |-> IF IsNullArray(c.data) /\ sorted THEN NullArray
               ELSE [j \in es |-> OutRow(order[j])]]

\* offset tables: "id" maps position p to block p, "zero" maps every position to block 0
Table(kind, n) == [p \in 0..(n - 1) |-> IF kind = "id" THEN p ELSE 0]
Blocks(kind, n) == IF kind = "id" THEN n ELSE Min2(n, 1)
Desc(n, r, lk, rk) ==
  [out_len |-> n, reduce_size |-> r,
   lhs_len |-> Blocks(lk, n) * r, rhs_len |-> Blocks(rk, n) * r,
   lhs_offset |-> Table(lk, n), rhs_offset |-> Table(rk, n)]

Descs(o) ==
  {Desc(n, r, lk, rk) : n \in 1..MaxLen,
                        r \in (IF o = "dot" THEN 1..MaxReduce ELSE {1}),
                        lk \in {"id", "zero"}, rk \in {"id", "zero"}}

\* feature buffers with pairwise distinct cells; other contents, or no readable
\* cell at all, for the side the operator does not use
UFeat(d) == [i \in 0..(NumSrc * d.lhs_len - 1) |-> i + 1]
VFeat(d) == [j \in 0..(NumDst * d.rhs_len - 1) |-> 10 * (j + 1)]
UFeats(o, d) ==
  IF use_lhs(o) THEN {UFeat(d)}
  ELSE {UFeat(d), [i \in DOMAIN UFeat(d) |-> 7 - i], NullArray}
VFeats(o, d) ==
  IF use_rhs(o) THEN {VFeat(d)}
  ELSE {VFeat(d), [j \in DOMAIN VFeat(d) |-> 70 - j], NullArray}

Grid(bdx, bdy, gdx, gdy) == [bdx |-> bdx, bdy |-> bdy, gdx |-> gdx, gdy |-> gdy]
Grids ==
  {g \in [bdx : 1..MaxDim, bdy : 1..MaxDim, gdx : 1..MaxDim, gdy : 1..MaxDim] :
     g.bdx * g.bdy * g.gdx * g.gdy <= MaxThreads}

Config(c, o, d, g, u, v, n) ==
  [coo |-> c, op |-> o, bcast |-> d, grid |-> g, ufeat |-> u, vfeat |-> v,
   calls |-> n]

\* E edges with rows out of order and the reversing edge map
CanonCoo(E) ==
  [num_rows |-> NumSrc, num_cols |-> NumDst,
   row |-> [e \in 0..(E - 1) |-> (E - 1 - e) % NumSrc],
   col |-> [e \in 0..(E - 1) |-> e % NumDst],
   data |-> [e \in 0..(E - 1) |-> E - 1 - e]]

\* every geometry against every edge count and output width, one dispatch
GeomConfigs ==
  {Config(CanonCoo(E), "add", Desc(n, 1, "id", "id"), g,
          UFeat(Desc(n, 1, "id", "id")), VFeat(Desc(n, 1, "id", "id")), 1) :
     E \in 0..MaxE, n \in 0..MaxLen, g \in Grids}

\* every sparse structure, on one thread and on two, two dispatches
StructConfigs ==
  {Config(c, "add", Desc(1, 1, "id", "id"), g,
          UFeat(Desc(1, 1, "id", "id")), VFeat(Desc(1, 1, "id", "id")), 2) :
     c \in UNION {CooSet(E) : E \in 0..MaxE},
     g \in {Grid(1, 1, 1, 1), Grid(1, 2, 1, 1)}}

\* every operator against every broadcast descriptor and feature content, two
\* dispatches
OpConfigs ==
  UNION {UNION {{Config(CanonCoo(2), o, d, Grid(2, 1, 1, 1), u, v, 2) :
                   u \in UFeats(o, d), v \in VFeats(o, d)} :
                d \in Descs(o)} :
         o \in Ops}

\* the worked example: 2 sources [[1,2],[3,4]], 2 destinations [[10,20],[30,40]],
\* edges (0,0), (0,1), (1,1), elementwise multiply, without and with edge map [2,0,1]
ExampleCoo ==
  [num_rows |-> 2, num_cols |-> 2,
   row |-> (0 :> 0 @@ 1 :> 0 @@ 2 :> 1),
   col |-> (0 :> 0 @@ 1 :> 1 @@ 2 :> 1),
   data |-> NullArray]
ExampleMap == (0 :> 2 @@ 1 :> 0 @@ 2 :> 1)
ExampleConfigs ==
  {Config(c, "mul", Desc(2, 1, "id", "id"), g,
          (0 :> 1 @@ 1 :> 2 @@ 2 :> 3 @@ 3 :> 4),
          (0 :> 10 @@ 1 :> 20 @@ 2 :> 30 @@ 3 :> 40), 1) :
     c \in {ExampleCoo, [ExampleCoo EXCEPT !.data = ExampleMap]},
     g \in Grids}

Configs == GeomConfigs \cup StructConfigs \cup OpConfigs \cup ExampleConfigs

\* the output buffer as the caller allocates it: E * out_len cells of no meaning
OutInit(c) == [i \in 0..(Size(c.coo.row) * c.bcast.out_len - 1) |-> -1]

Loaded(c) ==
  /\ coo = c.coo
  /\ csr = ToCsr(c.coo)
  /\ ufeat = c.ufeat
  /\ vfeat = c.vfeat
  /\ bcast = c.bcast
  /\ op = c.op
  /\ grid = c.grid
  /\ calls = c.calls
  /\ out = OutInit(c)
  /\ kern = NoKernel
  /\ thr = [t \in Threads(c.grid) |-> IdleThread]
  /\ hist = <<>>
  /\ visits = NoVisits
  /\ writers = NoWriters
  /\ reads = {}

Init ==
  /\ \E c \in Configs : Loaded(c)
  /\ srch = SearchOff
  /\ host = HostOff

Next ==
  \/ \E b \in BOOLEAN : LaunchCoo(b)
  \/ \E b \in BOOLEAN : LaunchCsr(b)
  \/ \E t \in DOMAIN thr : CooEdgeStep(t)
  \/ \E t \in DOMAIN thr : CooFeatStep(t)
  \/ \E t \in DOMAIN thr : CsrEdgeStep(t)
  \/ \E t \in DOMAIN thr : CsrFeatStep(t)
  \/ Retire

Spec == Init /\ [][Next]_vars

\* the well-formed row-pointer arrays of N rows and E edges
RowPtrs(N, E) ==
  {a \in Arr0(N + 1, 0..E) :
     a[0] = 0 /\ a[N] = E /\ \A i \in 0..(N - 1) : a[i] <= a[i + 1]}

SearchCalls ==
  UNION {UNION {{SearchCall(a, N + 1, e) : a \in RowPtrs(N, E), e \in 0..(E - 1)} :
                E \in 1..MaxSearchE} :
         N \in 1..MaxSearchN}

InitSearch ==
  /\ Loaded(Config(CanonCoo(0), "add", Desc(0, 1, "id", "id"), Grid(1, 1, 1, 1),
                   NullArray, NullArray, 0))
  /\ srch \in SearchCalls
  /\ host = HostOff

NextSearch == SearchStep \/ SearchExit

SpecSearch == InitSearch /\ [][NextSearch]_vars

\* the calls of the two entry points: any width, at least one edge, with and
\* without broadcasting, on a queue layer that works or fails
HostCalls ==
  {HostCall(f, len, nnz, b, q) :
     f \in {"coo", "csr"}, len \in 0..(MaxLen + 1), nnz \in 1..(MaxE + 2),
     b \in BOOLEAN, q \in BOOLEAN}

InitDispatch ==
  /\ Loaded(Config(CanonCoo(0), "add", Desc(0, 1, "id", "id"), Grid(1, 1, 1, 1),
                   NullArray, NullArray, 0))
  /\ srch = SearchOff
  /\ host \in HostCalls

NextDispatch ==
  \/ Geometry
  \/ SwitchEnter
  \/ LaunchKernel
  \/ SwitchLeave
  \/ Return
  \/ KernelBegin
  \/ KernelEnd
  \/ ReleaseRun

SpecDispatch == InitDispatch /\ [][NextDispatch]_vars

\* the launches whose threads are followed to their exit: one thread and
\* two along each axis, on the largest structure and width and on the empty ones
LiveConfigs ==
  {c \in GeomConfigs :
     /\ Size(c.coo.row) \in {0, MaxE}
     /\ c.bcast.out_len \in {0, MaxLen}
     /\ Cardinality(Threads(c.grid)) <= 2}

InitLive ==
  \/ /\ \E c \in LiveConfigs : Loaded(c)
     /\ srch = SearchOff
     /\ host = HostOff
  \/ InitSearch

\* a step of some thread of the running kernel, or the kernel leaving the stream
KernelStep ==
  \/ \E t \in DOMAIN thr :
       CooEdgeStep(t) \/ CooFeatStep(t) \/ CsrEdgeStep(t) \/ CsrFeatStep(t)
  \/ Retire

NextLive == Next \/ NextSearch

\* the device keeps scheduling the threads of an accepted kernel, and a
\* thread inside BinarySearchSrc keeps executing
SpecLive ==
  InitLive /\ [][NextLive]_vars /\ WF_vars(KernelStep) /\ WF_vars(NextSearch)

\* launches over as many edges as Idx can count, on one thread and on two
\* along the edge axis
WideConfigs ==
  {Config(CanonCoo(MaxIdx), "add", Desc(1, 1, "id", "id"), g,
          UFeat(Desc(1, 1, "id", "id")), VFeat(Desc(1, 1, "id", "id")), 1) :
     g \in {Grid(1, 1, 1, 1), Grid(1, 2, 1, 1), Grid(1, 1, 1, 2)}}

InitWide ==
  /\ \E c \in WideConfigs : Loaded(c)
  /\ srch = SearchOff
  /\ host = HostOff

SpecWide == InitWide /\ [][Next]_vars

\* row-pointer arrays of as many rows as Idx allows with N + 1 representable:
\* one edge in every row, every edge in the last row, every edge in the first
WideRowPtrs ==
  LET N == MaxIdx - 1
  IN {[i \in 0..N |-> i],
      [i \in 0..N |-> IF i = N THEN N ELSE 0],
      [i \in 0..N |-> IF i = 0 THEN 0 ELSE N]}

WideSearchCalls ==
  {SearchCall(a, MaxIdx, e) : a \in WideRowPtrs, e \in 0..(MaxIdx - 2)}

InitSearchWide ==
  /\ Loaded(Config(CanonCoo(0), "add", Desc(0, 1, "id", "id"), Grid(1, 1, 1, 1),
                   NullArray, NullArray, 0))
  /\ srch \in WideSearchCalls
  /\ host = HostOff

SpecSearchWide == InitSearchWide /\ [][NextSearch]_vars

----------------------------------------------------------------------------
(* What the claims speak of, stated from the inputs alone. *)

\* the unique row i with indptr[i] <= e < indptr[i+1]
RowOf(indptr, e) ==
  CHOOSE i \in 0..(Size(indptr) - 2) : indptr[i] <= e /\ e < indptr[i + 1]

EdgesOf(fmt) == 0..((IF fmt = "coo" THEN Size(coo.row) ELSE Size(csr.indices)) - 1)
Positions == 0..(bcast.out_len - 1)
SrcOf(fmt, e) == IF fmt = "coo" THEN coo.row[e] ELSE RowOf(csr.indptr, e)
DstOf(fmt, e) == IF fmt = "coo" THEN coo.col[e] ELSE csr.indices[e]
MapOf(fmt) == IF fmt = "coo" THEN coo.data ELSE csr.data

\* the output row of edge e of a launch k: edge_map[e] when UseIdx, e otherwise
OutRowOf(k, e) == IF k.UseIdx THEN MapOf(k.fmt)[e] ELSE e

LhsAddOf(k, p) == IF k.UseBcast THEN bcast.lhs_offset[p] ELSE p
RhsAddOf(k, p) == IF k.UseBcast THEN bcast.rhs_offset[p] ELSE p

\* BinaryOp::Call on the two windows of edge e at output position p
CellOf(k, e, p) ==
  Call(op,
       Ptr("ufeat", SrcOf(k.fmt, e) * bcast.lhs_len + LhsAddOf(k, p) * bcast.reduce_size),
       Ptr("vfeat", DstOf(k.fmt, e) * bcast.rhs_len + RhsAddOf(k, p) * bcast.reduce_size),
       bcast.reduce_size)

Completed == {hist[i] : i \in 1..Len(hist)}

\* C1: after either kernel has run to completion, for every edge e and every
\* output position p the cell out[eid*out_len + p] holds BinaryOp::Call of the
\* ufeat window at src*ufeat_len + lhs_add*reduce_size and the vfeat window at
\* dst*vfeat_len + rhs_add*reduce_size, with eid, lhs_add and rhs_add resolved
\* through edge_map and the offset tables when UseIdx and UseBcast say so.
C1_KernelContract ==
  \A h \in Completed : \A e \in EdgesOf(h.fmt) : \A p \in Positions :
    h.out[OutRowOf(h, e) * bcast.out_len + p] = CellOf(h, e, p)

C1_Witness ==
  \E h \in Completed :
    /\ h.fmt = "csr" /\ h.UseBcast /\ h.UseIdx
    /\ Size(csr.indices) = 2 /\ bcast.out_len = 2
    /\ bcast.lhs_offset # bcast.rhs_offset
    /\ op = "dot" /\ bcast.reduce_size = 2

ExampleInputs ==
  /\ coo.row = ExampleCoo.row /\ coo.col = ExampleCoo.col
  /\ ufeat = (0 :> 1 @@ 1 :> 2 @@ 2 :> 3 @@ 3 :> 4)
  /\ vfeat = (0 :> 10 @@ 1 :> 20 @@ 2 :> 30 @@ 3 :> 40)
  /\ op = "mul" /\ bcast.out_len = 2 /\ bcast.reduce_size = 1

\* row r of an output buffer of width 2
Row2(o, r) == <<o[2 * r], o[2 * r + 1]>>

\* C2 as the spec states it: on the worked example, without edge map and without
\* broadcasting, the coordinate kernel produces rows [10,40], [20,80], [90,160].
C2_ExampleAsStated ==
  \A h \in Completed :
    (ExampleInputs /\ h.fmt = "coo" /\ ~h.UseIdx /\ ~h.UseBcast)
      => /\ Row2(h.out, 0) = <<10, 40>>
         /\ Row2(h.out, 1) = <<20, 80>>
         /\ Row2(h.out, 2) = <<90, 160>>

\* C2 amended: on the worked example the coordinate kernel produces rows
\* [10,40], [30,80], [90,160]; edge 1 joins source 0 = [1,2] and destination
\* 1 = [30,40].
C2_Example ==
  \A h \in Completed :
    (ExampleInputs /\ h.fmt = "coo" /\ ~h.UseIdx /\ ~h.UseBcast)
      => /\ Row2(h.out, 0) = <<10, 40>>
         /\ Row2(h.out, 1) = <<30, 80>>
         /\ Row2(h.out, 2) = <<90, 160>>

C2_Witness ==
  \E h \in Completed :
    ExampleInputs /\ h.fmt = "coo" /\ ~h.UseIdx /\ ~h.UseBcast

\* C3: for every well-formed row-pointer array of length N+1, empty rows
\* included, and every edge index e in [0,E), BinarySearchSrc(indptr, N+1, e)
\* returns the unique i in [0,N) with indptr[i] <= e < indptr[i+1]; for
\* indptr = [0,2,2,5] edges 0,1 resolve to source 0 and edges 2,3,4 to source 2.
C3_SearchFindsRow ==
  srch.pc = "done" =>
    /\ \A i \in 0..(srch.length - 2) :
         (srch.array[i] <= srch.eid /\ srch.eid < srch.array[i + 1]) <=> i = srch.ret
    /\ srch.array = (0 :> 0 @@ 1 :> 2 @@ 2 :> 2 @@ 3 :> 5)
         => srch.ret = (IF srch.eid \in {0, 1} THEN 0 ELSE 2)

C3_Witness ==
  /\ srch.pc = "done"
  /\ srch.array = (0 :> 0 @@ 1 :> 2 @@ 2 :> 2 @@ 3 :> 5)
  /\ srch.eid = 2
  /\ srch.ret = 2

\* the two encodings describe the same edge set: edge j of the compressed
\* encoding is an edge of the coordinate encoding with the same endpoints and
\* the same output row
SameEdgeSet ==
  \E f \in Perms0(Size(coo.row)) :
    \A j \in DOMAIN f :
      /\ coo.row[f[j]] = RowOf(csr.indptr, j)
      /\ coo.col[f[j]] = csr.indices[j]
      /\ (IF IsNullArray(coo.data) THEN f[j] ELSE coo.data[f[j]])
           = (IF IsNullArray(csr.data) THEN j ELSE csr.data[j])

\* C4: for a coordinate and a compressed-row encoding of the same edge set,
\* with the same operator, feature buffers and broadcast descriptor, the final
\* output buffer of SDDMMCooKernel equals that of SDDMMCsrKernel cell for cell.
C4_CooEqualsCsr ==
  \A g, h \in Completed :
    (SameEdgeSet /\ g.fmt = "coo" /\ h.fmt = "csr" /\ g.UseBcast = h.UseBcast)
      => g.out = h.out

C4_Witness ==
  /\ Len(hist) = 2
  /\ hist[1].fmt = "coo" /\ hist[2].fmt = "csr"
  /\ hist[1].UseBcast = hist[2].UseBcast
  /\ SameEdgeSet
  /\ Size(coo.row) = 2 /\ coo.row[0] > coo.row[1]
  /\ ~hist[1].UseIdx /\ hist[2].UseIdx
  /\ csr.indptr[1] = 1

\* C5: for every geometry with all four extents >= 1 and every E >= 0 and
\* out_len >= 0, the nested strided loops of a kernel, over all threads of the
\* grid, execute the loop body for every pair (e,p) of [0,E) x [0,out_len)
\* exactly once: none is skipped, none is executed twice by any thread or threads.
C5_EveryPairOnce ==
  /\ \A k \in DOMAIN visits :
       k \in EdgesOf(kern.fmt) \X Positions /\ visits[k] = 1
  /\ AllDone => DOMAIN visits = EdgesOf(kern.fmt) \X Positions

C5_Witness ==
  /\ AllDone
  /\ grid = Grid(2, 1, 1, 2)
  /\ Size(coo.row) = MaxE /\ bcast.out_len = MaxLen
  /\ DOMAIN visits = EdgesOf(kern.fmt) \X Positions

\* the output buffer of a launch k as the inputs alone determine it
FinalOut(k) ==
  [c \in DOMAIN out |->
     LET e == CHOOSE x \in EdgesOf(k.fmt) : OutRowOf(k, x) = c \div bcast.out_len
     IN CellOf(k, e, c % bcast.out_len)]

InFeat == {t \in DOMAIN thr : thr[t].pc = "feat"}

\* C6: in every interleaving of the threads of a launch no output cell is
\* written by two different threads and no thread reads an output cell; threads
\* on distinct edges hold disjoint output rows; and the buffer left when all
\* threads have returned is the one the inputs determine, whatever the
\* interleaving was.
C6_RaceFree ==
  /\ \A c \in DOMAIN writers : Cardinality(writers[c]) = 1
  /\ \A r \in reads : r[1] # "out"
  /\ \A t, u \in InFeat :
       thr[t].ty # thr[u].ty =>
         \/ thr[t].outoff + bcast.out_len <= thr[u].outoff
         \/ thr[u].outoff + bcast.out_len <= thr[t].outoff
  /\ AllDone => out = FinalOut(kern)

C6_Witness ==
  /\ \E t, u \in InFeat :
       /\ thr[t].ty # thr[u].ty
       /\ thr[t].tx > 0 /\ thr[u].tx > 0
  /\ kern.UseIdx
  /\ Cardinality(DOMAIN writers) >= 2

ExampleRun(h) ==
  /\ ExampleInputs /\ coo.data = ExampleMap /\ csr.data = ExampleMap
  /\ h.UseIdx /\ ~h.UseBcast

\* C7: in both kernels the result of edge index e goes to output row
\* edge_map[e] when an edge map is supplied and to row e when it is not; with
\* edge_map = [2,0,1] the result of edge index 0 is in output row 2 and output
\* row 0 holds the result of edge index 1.
C7_EdgeMapRow ==
  /\ \A t \in InFeat :
       thr[t].outoff =
         bcast.out_len * (IF IsNullArray(MapOf(kern.fmt)) THEN thr[t].ty
                          ELSE MapOf(kern.fmt)[thr[t].ty])
  /\ \A h \in Completed :
       ExampleRun(h) =>
         /\ Row2(h.out, 2) = <<CellOf(h, 0, 0), CellOf(h, 0, 1)>>
         /\ Row2(h.out, 2) = <<10, 40>>
         /\ Row2(h.out, 0) = <<CellOf(h, 1, 0), CellOf(h, 1, 1)>>
         /\ Row2(h.out, 0) = <<30, 80>>

C7_Witness ==
  \E h \in Completed : ExampleRun(h) /\ h.fmt = "csr" /\ Row2(h.out, 2) = <<10, 40>>

IdentityTables ==
  /\ bcast.lhs_len = bcast.out_len /\ bcast.rhs_len = bcast.out_len
  /\ \A p \in Positions : bcast.lhs_offset[p] = p /\ bcast.rhs_offset[p] = p

\* C8: when lhs_len == rhs_len == out_len, a kernel run with UseBcast = false
\* and the same kernel run with UseBcast = true on identity offset tables leave
\* the same output buffer.
C8_FastPathEqualsTables ==
  \A g, h \in Completed :
    (IdentityTables /\ g.fmt = h.fmt /\ ~g.UseBcast /\ h.UseBcast)
      => g.out = h.out

C8_Witness ==
  \E g, h \in Completed :
    /\ IdentityTables /\ g.fmt = h.fmt /\ ~g.UseBcast /\ h.UseBcast
    /\ bcast.out_len = 2 /\ Size(coo.row) = 2

\* the cell of edge e at position p read from the one side the operator uses
UsedSideCell(k, e, p) ==
  IF use_rhs(op)
  THEN vfeat[DstOf(k.fmt, e) * bcast.rhs_len + RhsAddOf(k, p) * bcast.reduce_size]
  ELSE ufeat[SrcOf(k.fmt, e) * bcast.lhs_len + LhsAddOf(k, p) * bcast.reduce_size]

UnusedSides ==
  (IF use_lhs(op) THEN {} ELSE {"ufeat"}) \cup (IF use_rhs(op) THEN {} ELSE {"vfeat"})

\* C9: for an operator with use_lhs = false neither kernel reads a cell of
\* ufeat and the base pointer it holds for that side is nullptr, and the same
\* for use_rhs = false and vfeat; the output is the one computed from the used
\* side alone, whatever the unused buffer contains and also when it has no
\* readable cell.
C9_UnusedSideUntouched ==
  UnusedSides # {} =>
    /\ \A r \in reads : r[1] \notin UnusedSides
    /\ \A t \in DOMAIN thr :
         /\ ~use_lhs(op) => thr[t].lhsoff = NullPtr
         /\ ~use_rhs(op) => thr[t].rhsoff = NullPtr
    /\ \A h \in Completed : \A e \in EdgesOf(h.fmt) : \A p \in Positions :
         h.out[OutRowOf(h, e) * bcast.out_len + p] = UsedSideCell(h, e, p)

C9_Witness ==
  /\ op = "copy_rhs" /\ IsNullArray(ufeat)
  /\ Len(hist) = 2 /\ hist[1].fmt = "coo" /\ hist[2].fmt = "csr"
  /\ hist[1].out = (0 :> 20 @@ 1 :> 20 @@ 2 :> 10 @@ 3 :> 10)

\* C10: running a dispatch twice on identical inputs leaves the output buffer
\* the first run left: each cell is assigned, not accumulated into, so what a
\* cell held before a run, the caller's initial content or the previous result,
\* does not show in the result.
C10_Idempotent ==
  \A i, j \in 1..Len(hist) :
    (i < j /\ hist[i].fmt = hist[j].fmt /\ hist[i].UseBcast = hist[j].UseBcast)
      => hist[j].out = hist[i].out

C10_Witness ==
  /\ Len(hist) = 2
  /\ hist[1].fmt = hist[2].fmt /\ hist[1].UseBcast = hist[2].UseBcast
  /\ Size(coo.row) = 2 /\ bcast.out_len = 2
  /\ \A c \in DOMAIN out : hist[2].out[c] # OutInit([coo |-> coo, bcast |-> bcast])[c]

\* the cells of the output buffer of the running launch: [0, E*out_len)
OutCells == 0..(Cardinality(EdgesOf(kern.fmt)) * bcast.out_len - 1)

\* C11: every step of either kernel leaves the sparse-structure arrays (row,
\* col, indptr, indices, edge_map), both feature buffers and both offset tables
\* as they were; the only memory a kernel stores to is the output buffer, and
\* every cell it stores to has an index in [0, E*out_len).
C11_Frame ==
  /\ [][<<coo, csr, ufeat, vfeat, bcast>>' = <<coo, csr, ufeat, vfeat, bcast>>]_vars
  /\ [](\A c \in DOMAIN writers : c \in OutCells /\ c \in DOMAIN out)

C11_Witness ==
  /\ AllDone /\ kern.fmt = "csr" /\ kern.UseIdx /\ kern.UseBcast
  /\ DOMAIN writers = OutCells
  /\ Cardinality(OutCells) = MaxE * MaxLen

TablesLive == host.ubcast_off = "filled" /\ host.vbcast_off = "filled"

KernelQueued == host.kernel \in {"pending", "running"}

C13_RejectedIsFatal ==
  host.pc = "returned" /\ host.kernel = "rejected" => host.result = "fatal"

\* C16: for out_len >= 1 and E >= 1, whatever FindNumThreads and
\* FindNumBlocks<'y'> return within their ranges, the geometry has nty >= 1,
\* ntx * nty <= CUDA_MAX_NUM_THREADS, nbx = ceil(out_len / ntx) (so that
\* nbx * ntx >= out_len), nby <= ceil(E / nty), and all four extents >= 1.
C16_Geometry ==
  host.pc \notin {"off", "geom"} /\ host.len >= 1 /\ host.nnz >= 1 =>
    /\ host.nty >= 1
    /\ host.ntx * host.nty <= CUDA_MAX_NUM_THREADS
    /\ host.nbx * host.ntx >= host.len /\ (host.nbx - 1) * host.ntx < host.len
    /\ (host.nby - 1) * host.nty < host.nnz
    /\ host.ntx >= 1 /\ host.nbx >= 1 /\ host.nby >= 1

C16_Witness ==
  /\ host.pc = "launch" /\ host.len >= 1
  /\ host.ntx * host.nty < CUDA_MAX_NUM_THREADS
  /\ host.nbx * host.ntx > host.len
  /\ host.nby = MaxBlocksY /\ host.nby * host.nty < host.nnz

\* the index range each buffer of the running launch may be loaded at
ReadRange(b) ==
  CASE b \in {"row", "col"} -> DOMAIN coo.row
    [] b = "indices" -> DOMAIN csr.indices
    [] b = "indptr" -> 0..csr.num_rows
    [] b = "edge_map" -> IF kern.UseIdx THEN 0..(Cardinality(EdgesOf(kern.fmt)) - 1) ELSE {}
    [] b \in {"ubcast_off", "vbcast_off"} ->
         IF kern.UseBcast THEN 0..(bcast.out_len - 1) ELSE {}
    [] OTHER -> Int

\* C14: on well-formed inputs every memory access of either kernel is in
\* bounds: row, col, indices and edge_map are read only at indices in [0, E),
\* edge_map only when UseIdx; BinarySearchSrc reads indptr only at indices in
\* [0, N] and returns a value in [0, N); ubcast_off and vbcast_off are read
\* only at indices in [0, out_len) and only when UseBcast; out is written only
\* at indices in [0, E*out_len).
C14_InBounds ==
  /\ \A r \in reads : r[2] \in ReadRange(r[1])
  /\ \A t \in DOMAIN thr :
       kern.fmt = "csr" /\ thr[t].pc = "feat" => thr[t].src \in 0..(csr.num_rows - 1)
  /\ \A c \in DOMAIN writers : c \in OutCells

C14_Witness ==
  /\ AllDone /\ kern.fmt = "csr" /\ kern.UseIdx /\ kern.UseBcast
  /\ csr.num_rows = NumSrc /\ bcast.out_len = MaxLen
  /\ {<<"indptr", csr.num_rows>>, <<"indices", MaxE - 1>>, <<"edge_map", MaxE - 1>>,
      <<"ubcast_off", MaxLen - 1>>, <<"vbcast_off", MaxLen - 1>>} \subseteq reads
  /\ MaxE * MaxLen - 1 \in DOMAIN writers

\* a pass through the body of the feature loop moves tx up, the step back to
\* the edge loop moves ty up
StridesAdvance ==
  \A t \in DOMAIN thr :
    CooFeatStep(t) \/ CsrFeatStep(t) =>
      IF thr[t].tx < bcast.out_len
      THEN thr'[t].pc = "feat" /\ thr'[t].tx > thr[t].tx
      ELSE thr'[t].pc = "edge" /\ thr'[t].ty > thr[t].ty

\* an iteration of while (lo < hi) narrows the interval and keeps lo <= hi
SearchShrinks ==
  srch.pc = "loop" /\ srch'.pc = "loop" =>
    /\ srch'.hi - srch'.lo < srch.hi - srch.lo
    /\ srch'.lo <= srch'.hi

\* C15: under fair scheduling of the threads every thread of a launched kernel
\* eventually exits: the edge loop and the feature loop advance by a strictly
\* positive stride until their bound is reached, and the loop of
\* BinarySearchSrc strictly shrinks hi - lo at every iteration and stops with
\* lo == hi.
C15_Terminates ==
  /\ (kern # NoKernel) ~> AllDone
  /\ (srch.pc = "loop") ~> (srch.pc = "done")
  /\ [][StridesAdvance /\ SearchShrinks]_vars
  /\ [](srch.pc \in {"test", "done"} => srch.lo = srch.hi)

C15_Witness ==
  /\ AllDone /\ kern.fmt = "csr"
  /\ Cardinality(DOMAIN thr) = 2
  /\ \E t \in DOMAIN thr : visits = (<<MaxE - 1, MaxLen - 1>> :> 1) @@ visits
  /\ Cardinality(DOMAIN visits) = MaxE * MaxLen

\* C17: with a w-bit signed Idx, for every edge count E representable in Idx
\* and every geometry, the edge counter ty never wraps: ty += stride_y always
\* yields the mathematical sum, a value of Idx, so no thread goes on to an
\* edge index below its first one or outside the edge arrays, also when E is
\* within stride_y of the largest Idx value.
C17_NoWrap ==
  \A t \in DOMAIN thr :
    thr[t].pc \in {"edge", "feat", "fault"} =>
      /\ thr[t].pc # "fault"
      /\ IdxFits(thr[t].ty)
      /\ thr[t].ty >= ThreadY(grid, t)

\* C18: with a w-bit signed Idx, for every N with N + 1 representable in Idx,
\* mid = (lo + hi) >> 1 never overflows: at every iteration
\* lo <= mid < hi <= N, so the search reads indptr only inside [0, N] and
\* returns the row of the edge, also for N above half the largest Idx value.
C18_MidInRange ==
  srch.pc # "off" =>
    /\ srch.pc # "fault"
    /\ srch.mid \in 0..(srch.length - 1)
    /\ 0 <= srch.lo /\ srch.lo <= srch.hi /\ srch.hi <= srch.length - 1
    /\ srch.pc = "done" =>
         /\ srch.array[srch.ret] <= srch.eid
         /\ srch.eid < srch.array[srch.ret + 1]

\* the entries of the searched array above the edge id
Above == {i \in DOMAIN srch.array : srch.array[i] > srch.eid}

\* C19: in BinarySearchSrc, for every well-formed row-pointer array and every
\* e in [0, E), the loop ends with hi the smallest index whose pointer value
\* is strictly greater than e; hence the test array[hi] == eid after the loop
\* is never true, and the function always returns hi - 1.
C19_UpperBound ==
  srch.pc \in {"test", "done"} =>
    /\ srch.hi \in Above /\ \A i \in Above : srch.hi <= i
    /\ srch.array[srch.hi] # srch.eid
    /\ srch.pc = "done" => srch.ret = srch.hi - 1

C19_Witness ==
  /\ srch.pc = "done" /\ srch.length = MaxSearchN + 1
  /\ srch.ret = srch.hi - 1 /\ srch.hi < srch.length - 1
  /\ srch.array[srch.ret] = srch.eid

====
